---- MODULE Spec2Model ----
(***************************************************************************)
(* Connection-state tracking and persistence of SubNetx:                   *)
(*   src/vpn/metrics/collector/database.py   (ConnectionDatabase)          *)
(*   src/vpn/metrics/collector/connection.py (ConnectionMonitor)           *)
(*   src/vpn/metrics/main.py                 (NetworkMonitor, the loop)    *)
(* and, beside them, the ping store (PingDatabase of                       *)
(* src/vpn/metrics/collector/classes/databases/database_ping.py) and the   *)
(* OpenVPN log monitor (VPNStatusMonitor of src/metrics/collector/status.py) *)
(*                                                                         *)
(* Time is counted in whole seconds.  `clock` is the local wall clock that *)
(* datetime.now() reads; successive reads by the sequential monitor code   *)
(* are separated by a probe or a sleep and are strictly increasing.  One   *)
(* instant per handler call stands for the handler's reads of now().       *)
(* SQLite's CURRENT_TIMESTAMP is UTC: it lags local time by `tz`.          *)
(***************************************************************************)
EXTENDS Integers, Sequences, FiniteSets, TLC

VARIABLES clock, tz, sessions, events, status, stability_metrics, mon, last,
          ret, loop, ping, log_file, vpn

(* the ping store, the OpenVPN log and its monitor: the state of the two   *)
(* programs that run beside the connection monitors                        *)
others == <<ping, log_file, vpn>>

vars == <<clock, tz, sessions, events, status, stability_metrics, mon, last,
          ret, loop, others>>

----------------------------------------------------------------------------
(* Bounds of the model *)

MaxTime == 4
MaxStep == 2
TzShift == 2

Targets == {"a", "b"}
TzOffsets == {0, TzShift}
Steps == 1..MaxStep

(* UTC starts at 0, the local clock at the offset, and the model follows   *)
(* them for MaxTime seconds                                                *)

(* SQL NULL *)
NULL == -1

(* the number of write statements of record_connection and of             *)
(* record_disconnection: two on the session/event tables, one on           *)
(* target_status                                                           *)
NStmts == 3

(* how a store call ends: it commits, it raises, or the process is ended  *)
(* before the commit (killed, or interrupted by a signal it does not       *)
(* handle)                                                                 *)
Outcomes == {"ok", "error", "crash"}

----------------------------------------------------------------------------
(* The store *)

(* connection_events.timestamp DEFAULT CURRENT_TIMESTAMP: UTC *)
CurrentTimestamp(now, offset) == now - offset

(* a target without a target_status row *)
NoStatus ==
  [present |-> FALSE, is_connected |-> FALSE, last_check |-> NULL,
   last_status_change |-> NULL, consecutive_status_duration |-> 0,
   total_uptime |-> 0, total_downtime |-> 0]

EmptyDb ==
  [sessions |-> <<>>, events |-> <<>>, status |-> [t \in Targets |-> NoStatus]]

(* the persisted store *)
Db == [sessions |-> sessions, events |-> events, status |-> status]

(* SELECT id FROM connection_sessions WHERE target = ? AND status = 'active' *)
ActiveSessionsAnyTarget(D, t) ==
  {i \in DOMAIN D.sessions : D.sessions[i].status = "active"}
ActiveSessions(D, t) ==
  {i \in DOMAIN D.sessions :
     D.sessions[i].target = t /\ D.sessions[i].status = "active"}

(* ... ORDER BY start_time DESC LIMIT 1 (the row with the largest id among *)
(* equal start times)                                                      *)
LatestActive(D, t) ==
  CHOOSE i \in ActiveSessions(D, t) :
    \A j \in ActiveSessions(D, t) :
      \/ D.sessions[j].start_time < D.sessions[i].start_time
      \/ (D.sessions[j].start_time = D.sessions[i].start_time /\ j <= i)

(* record_connection: "if not active_session" *)
OpensSessionMutant(D, t) == TRUE
OpensSession(D, t) == ActiveSessions(D, t) = {}

(* record_connection, statement 1: INSERT INTO connection_events 'connected' *)
ConnInsertEvent(D, t, now, offset) ==
  [D EXCEPT !.events = Append(@,
     [timestamp |-> CurrentTimestamp(now, offset), target |-> t,
      event_type |-> "connected", session_duration |-> NULL])]

(* record_connection, statement 2: INSERT INTO connection_sessions *)
ConnInsertSession(D, t, now) ==
  [D EXCEPT !.sessions = Append(@,
     [target |-> t, start_time |-> now, end_time |-> NULL,
      duration |-> NULL, status |-> "active"])]

(* record_connection, statement 3: the target_status row *)
ConnStatusKeepsChange(D, t, now) ==
  [D EXCEPT !.status[t] =
     [D.status[t] EXCEPT !.present = TRUE, !.is_connected = TRUE,
                         !.last_check = now,
                         !.consecutive_status_duration = 0]]
ConnStatus(D, t, now) ==
  LET row == D.status[t] IN
  IF row.present
  THEN IF ~row.is_connected
       THEN [D EXCEPT !.status[t] =
               [row EXCEPT !.is_connected = TRUE, !.last_check = now,
                           !.last_status_change = now,
                           !.consecutive_status_duration = 0]]
       ELSE [D EXCEPT !.status[t] =
               [row EXCEPT !.last_check = now,
                           !.consecutive_status_duration =
                              (now - row.last_status_change)
                              + row.consecutive_status_duration]]
  ELSE [D EXCEPT !.status[t] =
          [NoStatus EXCEPT !.present = TRUE, !.is_connected = TRUE,
                           !.last_check = now, !.last_status_change = now]]

(* the first k write statements of record_connection(t) at time now *)
RecordConnectionStmts(D, t, now, offset, k) ==
  LET open == OpensSession(D, t)
      d1 == IF open /\ k >= 1 THEN ConnInsertEvent(D, t, now, offset) ELSE D
      d2 == IF open /\ k >= 2 THEN ConnInsertSession(d1, t, now) ELSE d1
      d3 == IF k >= 3 THEN ConnStatus(d2, t, now) ELSE d2
  IN d3

(* record_disconnection, statement 1: UPDATE connection_sessions ... 'ended' *)
DiscEndSessionLeavesActive(D, t, now) ==
  LET id == LatestActive(D, t)
      row == D.sessions[id]
  IN [D EXCEPT !.sessions[id] =
        [row EXCEPT !.end_time = now, !.duration = now - row.start_time]]
DiscEndSession(D, t, now) ==
  LET id == LatestActive(D, t)
      row == D.sessions[id]
  IN [D EXCEPT !.sessions[id] =
        [row EXCEPT !.end_time = now, !.duration = now - row.start_time,
                    !.status = "ended"]]

(* record_disconnection, statement 2: INSERT INTO connection_events        *)
(* 'disconnected' with the duration computed from the session found       *)
DiscInsertEventNoDuration(D, t, now, offset, duration) ==
  [D EXCEPT !.events = Append(@,
     [timestamp |-> CurrentTimestamp(now, offset), target |-> t,
      event_type |-> "disconnected", session_duration |-> NULL])]
DiscInsertEvent(D, t, now, offset, duration) ==
  [D EXCEPT !.events = Append(@,
     [timestamp |-> CurrentTimestamp(now, offset), target |-> t,
      event_type |-> "disconnected", session_duration |-> duration])]

(* record_disconnection, statement 3: the target_status row *)
DiscStatusNoUptime(D, t, now) ==
  [D EXCEPT !.status[t] =
     [D.status[t] EXCEPT !.present = TRUE, !.is_connected = FALSE,
                         !.last_check = now, !.last_status_change = now,
                         !.consecutive_status_duration = 0]]
DiscStatusAllRows(D, t, now) ==
  [D EXCEPT !.status =
     [u \in Targets |->
        IF D.status[u].present
        THEN [D.status[u] EXCEPT !.last_check = now]
        ELSE IF u = t
             THEN [NoStatus EXCEPT !.present = TRUE, !.last_check = now,
                                   !.last_status_change = now]
             ELSE D.status[u]]]
DiscStatus(D, t, now) ==
  LET row == D.status[t] IN
  IF row.present
  THEN IF row.is_connected
       THEN [D EXCEPT !.status[t] =
               [row EXCEPT !.is_connected = FALSE, !.last_check = now,
                           !.last_status_change = now,
                           !.consecutive_status_duration = 0,
                           !.total_uptime =
                              row.total_uptime
                              + ((now - row.last_status_change)
                                 + row.consecutive_status_duration)]]
       ELSE [D EXCEPT !.status[t] =
               [row EXCEPT !.last_check = now,
                           !.consecutive_status_duration =
                              (now - row.last_status_change)
                              + row.consecutive_status_duration]]
  ELSE [D EXCEPT !.status[t] =
          [NoStatus EXCEPT !.present = TRUE, !.is_connected = FALSE,
                           !.last_check = now, !.last_status_change = now]]

(* the first k write statements of record_disconnection(t) at time now *)
RecordDisconnectionStmts(D, t, now, offset, k) ==
  LET found == ActiveSessions(D, t) # {}
      duration == IF found THEN now - D.sessions[LatestActive(D, t)].start_time
                  ELSE NULL
      d1 == IF found /\ k >= 1 THEN DiscEndSession(D, t, now) ELSE D
      d2 == IF found /\ k >= 2
            THEN DiscInsertEvent(d1, t, now, offset, duration) ELSE d1
      d3 == IF k >= 3 THEN DiscStatus(d2, t, now) ELSE d2
  IN d3

(* "with sqlite3.connect(db_path) as conn": the statements of the block    *)
(* are one transaction, committed when the block ends normally and rolled  *)
(* back when it raises or the process dies before the commit               *)
TransactionAutocommit(before, work, outcome) == work
Transaction(before, work, outcome) ==
  IF outcome = "ok" THEN work ELSE before

(* the store after record_connection(t); k statements ran when it failed *)
record_connection(D, t, now, offset, outcome, k) ==
  Transaction(D,
    RecordConnectionStmts(D, t, now, offset,
                          IF outcome = "ok" THEN NStmts ELSE k),
    outcome)

(* the store after record_disconnection(t); k statements ran when it failed *)
record_disconnection(D, t, now, offset, outcome, k) ==
  Transaction(D,
    RecordDisconnectionStmts(D, t, now, offset,
                             IF outcome = "ok" THEN NStmts ELSE k),
    outcome)

----------------------------------------------------------------------------
(* The stability analysis.  Percentages are whole percents. *)

(* the largest disconnection count the analysis is given *)
MaxDisconnections == 7

Min(a, b) == IF a < b THEN a ELSE b

(* get_stability_metrics, "Calculate stability rating" *)
StabilityRatingNoTolerance(uptime, disconnections_24h) ==
  100 - Min(disconnections_24h * 10, 50) - Min((100 - uptime) * 2, 50)
StabilityRating(uptime, disconnections_24h) ==
  LET r1 == IF disconnections_24h > 0
            THEN 100 - Min(disconnections_24h * 10, 50) ELSE 100
      r2 == IF uptime < 99 THEN r1 - Min((100 - uptime) * 2, 50) ELSE r1
  IN r2

(* get_stability_metrics: 'status' *)
StabilityStatus(rating) == IF rating >= 80 THEN "stable" ELSE "unstable"

(* _analyze_connection_stability, "Determine reason based on rating" *)
StabilityReasonLowerGood(rating) ==
  IF rating >= 99 THEN "Consistent uptime with minimal disconnections"
  ELSE IF rating >= 90 THEN "Generally stable with occasional disconnections"
  ELSE IF rating >= 80 THEN "Somewhat stable but with periodic disconnections"
  ELSE IF rating >= 50 THEN "Frequent disconnections affecting service quality"
  ELSE "Severe connection issues affecting service usability"
StabilityReason(rating) ==
  IF rating >= 99 THEN "Consistent uptime with minimal disconnections"
  ELSE IF rating >= 95 THEN "Generally stable with occasional disconnections"
  ELSE IF rating >= 80 THEN "Somewhat stable but with periodic disconnections"
  ELSE IF rating >= 50 THEN "Frequent disconnections affecting service quality"
  ELSE "Severe connection issues affecting service usability"

(* _analyze_connection_stability, "Generate recommendations" *)
RecommendationsFromFive(rating, recent_disconnections) ==
  (IF rating < 80 THEN <<"Check network configuration for issues">>
   ELSE <<>>)
  \o (IF recent_disconnections >= 5
      THEN <<"Investigate causes of frequent disconnections">> ELSE <<>>)
  \o (IF rating < 50
      THEN <<"Consider alternative VPN routing or connectivity">> ELSE <<>>)
Recommendations(rating, recent_disconnections) ==
  (IF rating < 80 THEN <<"Check network configuration for issues">>
   ELSE <<>>)
  \o (IF recent_disconnections > 5
      THEN <<"Investigate causes of frequent disconnections">> ELSE <<>>)
  \o (IF rating < 50
      THEN <<"Consider alternative VPN routing or connectivity">> ELSE <<>>)

(* what _analyze_connection_stability returns for the uptime and the      *)
(* disconnection count that get_stability_metrics worked with              *)
analyze_connection_stability(uptime, disconnections_24h) ==
  LET rating == StabilityRating(uptime, disconnections_24h) IN
  [op |-> "analyze_connection_stability",
   stability |-> StabilityStatus(rating),
   rating |-> rating,
   uptime_percentage |-> uptime,
   recent_disconnections |-> disconnections_24h,
   reason |-> StabilityReason(rating),
   recommendations |-> Recommendations(rating, disconnections_24h)]

----------------------------------------------------------------------------
(* The queries.  A float is kept as the whole number below it. *)

(* "days * 24 * 60 * 60" *)
SecondsPerDay == 86400

(* "'-24 hours'", f'-{period_hours} hours' *)
SecondsPerHour == 3600

(* "days: int = 30" *)
DefaultDays == 30

(* the calendar day of a time; time 0 is a midnight *)
DateOf(x) == x \div SecondsPerDay

(* "column >= datetime('now', '-N days')" on a column that holds           *)
(* datetime.now().isoformat(), "2024-05-01T10:00:00.5", against SQLite's   *)
(* "2024-05-01 10:00:00": the strings are compared, so the dates decide,   *)
(* and on the same date "T" sorts after " "                                *)
IsoNotBefore(column, bound) == DateOf(column) >= DateOf(bound)

(* SUM over the rows S of the values f *)
(* the seconds of activity since midnight UTC that the model has followed: *)
(* the whole days a process sleeps in between are not counted               *)
Elapsed(now, offset) == CurrentTimestamp(now, offset) % SecondsPerDay

RECURSIVE Sum(_, _)
Sum(f, S) ==
  IF S = {} THEN 0
  ELSE LET i == CHOOSE j \in S : TRUE IN f[i] + Sum(f, S \ {i})

(* "(part / whole) * 100" *)
Percent(part, whole) == (part * 100) \div whole

(* the connection_events rows of target t *)
TargetEvents(D, t) == {i \in DOMAIN D.events : D.events[i].target = t}

(* SELECT MIN(timestamp) FROM connection_events WHERE target = ? *)
MinTimestamp(D, t) ==
  IF TargetEvents(D, t) = {} THEN NULL
  ELSE LET i == CHOOSE j \in TargetEvents(D, t) :
                  \A k \in TargetEvents(D, t) :
                    D.events[j].timestamp <= D.events[k].timestamp
       IN D.events[i].timestamp

(* SELECT MAX(timestamp) FROM connection_events WHERE target = ? *)
MaxTimestamp(D, t) ==
  IF TargetEvents(D, t) = {} THEN NULL
  ELSE LET i == CHOOSE j \in TargetEvents(D, t) :
                  \A k \in TargetEvents(D, t) :
                    D.events[j].timestamp >= D.events[k].timestamp
       IN D.events[i].timestamp

(* JULIANDAY('now') - JULIANDAY(start_time), in seconds: 'now' is UTC,     *)
(* start_time the local time record_connection stored, read as if UTC      *)
JulianSecondsSince(start_time, now, offset) ==
  CurrentTimestamp(now, offset) - start_time

(* get_connection_stats(t, days): the uptime part of the statistics *)
get_connection_stats(D, t, now, offset, days) ==
  LET bound == CurrentTimestamp(now, offset) - days * SecondsPerDay
      rows == {i \in DOMAIN D.sessions :
                 /\ D.sessions[i].target = t
                 /\ IsoNotBefore(D.sessions[i].start_time, bound)}
      total_duration ==
        IF rows = {} THEN NULL
        ELSE Sum([i \in rows |-> IF D.sessions[i].duration # NULL
                                  THEN D.sessions[i].duration ELSE 0], rows)
      has_current == ActiveSessions(D, t) # {}
      current == D.sessions[LatestActive(D, t)]
      has_period == TargetEvents(D, t) # {}
      total_seconds == MaxTimestamp(D, t) - MinTimestamp(D, t)
  IN [op |-> "get_connection_stats",
      target |-> t,
      raised |-> has_period /\ total_seconds > 0 /\ total_duration = NULL,
      total_sessions |-> Cardinality(rows),
      total_duration |-> total_duration,
      has_current_session |-> has_current,
      current_session_start |-> IF has_current THEN current.start_time
                                ELSE NULL,
      current_session_duration |->
        IF ~has_current THEN NULL
        ELSE IF current.end_time = NULL
             THEN JulianSecondsSince(current.start_time, now, offset)
             ELSE current.duration,
      has_monitoring_period |-> has_period,
      first_seen |-> MinTimestamp(D, t),
      last_seen |-> MaxTimestamp(D, t),
      total_seconds |-> IF has_period THEN total_seconds ELSE NULL,
      has_uptime_percentage |-> has_period,
      uptime_percentage |->
        IF ~has_period THEN NULL
        ELSE IF total_seconds > 0 /\ total_duration # NULL
             THEN Percent(total_duration, total_seconds)
             ELSE 0]

(* get_target_status(t), "Return default status if target not found" *)
DefaultTargetStatusSeenNow(t, now) ==
  [op |-> "get_target_status", target |-> t, is_connected |-> FALSE,
   last_check |-> now, consecutive_status_duration |-> 0,
   total_uptime |-> 0, total_downtime |-> 0, first_seen |-> now,
   monitoring_period |-> 0]
DefaultTargetStatus(t, now) ==
  [op |-> "get_target_status", target |-> t, is_connected |-> FALSE,
   last_check |-> now, consecutive_status_duration |-> 0,
   total_uptime |-> 0, total_downtime |-> 0, first_seen |-> NULL,
   monitoring_period |-> 0]

(* get_target_status(t) *)
get_target_status(D, t, now) ==
  LET row == D.status[t]
      first_seen == MinTimestamp(D, t)
  IN IF ~row.present
     THEN DefaultTargetStatus(t, now)
     ELSE [op |-> "get_target_status", target |-> t,
           is_connected |-> row.is_connected,
           last_check |-> row.last_check,
           consecutive_status_duration |-> row.consecutive_status_duration,
           total_uptime |-> row.total_uptime,
           total_downtime |-> row.total_downtime,
           first_seen |-> first_seen,
           monitoring_period |-> IF first_seen # NULL THEN now - first_seen
                                 ELSE 0]

(* get_disconnection_count(t, period_hours): both sides of the comparison  *)
(* are SQLite UTC timestamps                                               *)
get_disconnection_count(D, t, now, offset, period_hours) ==
  Cardinality({i \in TargetEvents(D, t) :
                 /\ D.events[i].event_type = "disconnected"
                 /\ D.events[i].timestamp
                      >= CurrentTimestamp(now, offset)
                         - period_hours * SecondsPerHour})

(* calculate_uptime(t, days) *)
calculate_uptime(D, t, now, offset, days) ==
  LET bound == CurrentTimestamp(now, offset) - days * SecondsPerDay
      ended == {i \in DOMAIN D.sessions :
                  /\ D.sessions[i].target = t
                  /\ D.sessions[i].status = "ended"
                  /\ IsoNotBefore(D.sessions[i].start_time, bound)}
      active == {i \in DOMAIN D.sessions :
                   /\ D.sessions[i].target = t
                   /\ D.sessions[i].status = "active"
                   /\ IsoNotBefore(D.sessions[i].start_time, bound)}
      completed_uptime == Sum([i \in ended |-> D.sessions[i].duration], ended)
      active_time ==
        Sum([i \in active |->
               JulianSecondsSince(D.sessions[i].start_time, now, offset)],
            active)
      total_time == days * SecondsPerDay
  IN IF total_time > 0
     THEN Percent(completed_uptime + active_time, total_time) ELSE 0

(* get_stability_metrics(t): the stability_metrics row it inserts; its     *)
(* return value holds the same numbers                                     *)
StabilityMetricsRow(D, t, now, offset) ==
  LET uptime == calculate_uptime(D, t, now, offset, DefaultDays)
      target_status == get_target_status(D, t, now)
      disconnections_24h == get_disconnection_count(D, t, now, offset, 24)
      recent == {i \in DOMAIN D.sessions :
                   /\ D.sessions[i].target = t
                   /\ D.sessions[i].status = "ended"
                   /\ IsoNotBefore(D.sessions[i].end_time,
                                   CurrentTimestamp(now, offset)
                                   - 24 * SecondsPerHour)}
      avg_duration ==
        IF recent = {} THEN 0
        ELSE Sum([i \in recent |-> D.sessions[i].duration], recent)
             \div Cardinality(recent)
  IN [timestamp |-> CurrentTimestamp(now, offset),
      target |-> t,
      uptime_percentage |-> uptime,
      stability_rating |-> StabilityRating(uptime, disconnections_24h),
      disconnection_count |-> disconnections_24h,
      avg_session_duration |-> avg_duration,
      monitoring_period |-> target_status.monitoring_period]

(* what get_stability_metrics returns after inserting the row *)
get_stability_metrics(row) ==
  [op |-> "get_stability_metrics",
   target |-> row.target,
   raised |-> FALSE,
   uptime_percentage |-> row.uptime_percentage,
   stability_rating |-> row.stability_rating,
   disconnections_24h |-> row.disconnection_count,
   avg_session_duration |-> row.avg_session_duration,
   monitoring_period |-> row.monitoring_period,
   status |-> StabilityStatus(row.stability_rating)]

----------------------------------------------------------------------------
(* The monitor *)

(* "if len(self.status_history) > 100: self.status_history.pop(0)" *)
HistoryLimit == 100

(* a target whose monitor process is not running *)
NoMonitor ==
  [alive |-> FALSE, is_connected |-> FALSE, status_history |-> <<>>]

(* ConnectionMonitor.__init__ before its first check *)
NewMonitor ==
  [alive |-> TRUE, is_connected |-> FALSE, status_history |-> <<>>]

(* what the steps of a probe can meet: socket.socket()/settimeout,         *)
(* socket.gethostbyname, sock.connect_ex, and ping_target of the ping      *)
(* wrapper, which returns a status or raises                               *)
SocketOutcomes == {"ok", "raises"}
ResolveOutcomes == {"ok", "gaierror", "raises"}
ConnectOutcomes == {"connected", "errno", "raises"}
PingOutcomes == {"online", "offline", "timeout", "raises"}

(* _check_connection, "Try to connect to the target": a gaierror of         *)
(* gethostbyname is swallowed (the name itself is used), a connect_ex that  *)
(* returns an error number falls back to ping, and whatever is raised is    *)
(* caught and gives False                                                   *)
ProbeUncaught(env) ==
  [is_connected |-> env.connect = "connected",
   raised |-> "raises" \in {env.socket, env.resolve, env.connect, env.ping}]
Probe(env) ==
  [is_connected |->
     IF env.socket = "raises" \/ env.resolve = "raises"
        \/ env.connect = "raises"
     THEN FALSE
     ELSE IF env.connect = "connected" THEN TRUE
     ELSE env.ping = "online",
   raised |-> FALSE]

(* _check_connection, "Update connection records": the store call of a    *)
(* check that found was_connected before and is_connected now              *)
DbCallLevelTriggered(was_connected, is_connected) ==
  IF is_connected THEN "record_connection" ELSE "record_disconnection"
DbCall(was_connected, is_connected) ==
  IF is_connected
  THEN IF ~was_connected THEN "record_connection" ELSE "none"
  ELSE IF was_connected THEN "record_disconnection" ELSE "none"

(* "Update status history (keep last 100 entries)" *)
AppendHistoryDropsNewest(h, now, connected) ==
  LET h2 == Append(h, [timestamp |-> now, connected |-> connected]) IN
  IF Len(h2) > HistoryLimit THEN SubSeq(h2, 1, HistoryLimit) ELSE h2
AppendHistory(h, now, connected) ==
  LET h2 == Append(h, [timestamp |-> now, connected |-> connected]) IN
  IF Len(h2) > HistoryLimit THEN Tail(h2) ELSE h2

(* the store after the store call of a check *)
CheckConnectionDb(D, t, now, offset, call, outcome, k) ==
  CASE call = "record_connection" ->
         record_connection(D, t, now, offset, outcome, k)
    [] call = "record_disconnection" ->
         record_disconnection(D, t, now, offset, outcome, k)
    [] OTHER -> D

(* the monitor after _check_connection: is_connected is assigned before   *)
(* the store call, the history entry after it, so a store call that raises *)
(* leaves the new is_connected and no history entry; a crash ends the      *)
(* process                                                                 *)
CheckConnectionMon(m, now, probe, outcome) ==
  CASE outcome = "ok" ->
         [m EXCEPT !.is_connected = probe,
                   !.status_history = AppendHistory(@, now, probe)]
    [] outcome = "error" -> [m EXCEPT !.is_connected = probe]
    [] OTHER -> NoMonitor

(* what the last step did (history variable) *)
LastOp(op, t, probe, was_connected, call, outcome, k, D) ==
  [op |-> op, target |-> t, probe |-> probe, was_connected |-> was_connected,
   call |-> call, outcome |-> outcome, k |-> k,
   active_before |-> ActiveSessions(D, t) # {}]

(* the last step returned no value *)
NoReturn == [op |-> "none"]

(* a target whose NetworkMonitor.run is not running: pc is the position    *)
(* of the loop, in_progress the number of cycles begun and not finished,   *)
(* cycle_start the time the last cycle began                               *)
NoLoop == [pc |-> "off", in_progress |-> 0, cycle_start |-> NULL]

(* The ping store: PingDatabase of classes/databases/database_ping.py *)

(* the ping results a run stores, and the ICMP replies one result lists   *)
MaxPings == 1
MaxIcmp == 1

(* _init_db: the four tables, empty *)
EmptyPingDb == [targets |-> <<>>, metrics |-> <<>>, icmp |-> <<>>, tls |-> <<>>]

(* the ping_data a caller passes: the target is a string or is not, the    *)
(* numbers can be converted by float() and int() or cannot, and the result *)
(* lists some ICMP replies and has TLS information or not                  *)
PingData ==
  [target : Targets, is_str : BOOLEAN, convertible : BOOLEAN,
   icmp : 0..MaxIcmp, tls : BOOLEAN]

(* "SELECT id FROM ping_targets WHERE target = ?" *)
TargetId(P, target) ==
  IF \E i \in DOMAIN P.targets : P.targets[i] = target
  THEN CHOOSE i \in DOMAIN P.targets : P.targets[i] = target
  ELSE NULL

(* add_target(target): a connection and a transaction of its own, which    *)
(* inserts the target when it is not there                                 *)
add_target(P, target, outcome) ==
  Transaction(P,
    IF TargetId(P, target) # NULL THEN P
    ELSE [P EXCEPT !.targets = Append(@, target)],
    outcome)

(* the write statements of store_ping_result on its own connection: the    *)
(* ping_metrics row, an icmp_details row for each reply, the tls_info row  *)
PingStmts(data) == 1 + data.icmp + (IF data.tls THEN 1 ELSE 0)

(* the first k of them *)
StorePingStmts(P, data, k) ==
  LET ping_metric_id == Len(P.metrics) + 1
      replies == IF k - 1 < data.icmp THEN k - 1 ELSE data.icmp
      p1 == IF k >= 1
            THEN [P EXCEPT !.metrics =
                    Append(@, [target_id |-> TargetId(P, data.target)])]
            ELSE P
      p2 == [p1 EXCEPT !.icmp =
               @ \o [i \in 1..replies |->
                       [ping_metric_id |-> ping_metric_id, sequence |-> i]]]
      p3 == IF data.tls /\ k >= PingStmts(data)
            THEN [p2 EXCEPT !.tls =
                    Append(@, [ping_metric_id |-> ping_metric_id])]
            ELSE p2
  IN p3

(* store_ping_result raises: the target is not a string, add_target        *)
(* failed, or a conversion or a statement of its own failed                *)
StorePingRaises(data, add_outcome, outcome) ==
  ~data.is_str \/ add_outcome # "ok" \/ outcome # "ok"

(* the store after store_ping_result(ping_data): "Target must be a string" *)
(* is raised before anything is written; add_target commits on its own     *)
(* connection before the first statement of store_ping_result runs; the    *)
(* statements of store_ping_result are one transaction                     *)
store_ping_result(P, data, add_outcome, outcome, k) ==
  IF ~data.is_str THEN P
  ELSE LET P1 == add_target(P, data.target, add_outcome) IN
       IF add_outcome # "ok" THEN P1
       ELSE Transaction(P1,
              StorePingStmts(P1, data,
                             IF outcome = "ok" THEN PingStmts(data) ELSE k),
              outcome)

(* The OpenVPN log monitor: VPNStatusMonitor of metrics/collector/status.py *)

(* VPNStatusMonitor.__init__, before a call of monitor_events: pc is the   *)
(* position in monitor_events, current_size the size it has read           *)
NewStatusMonitor ==
  [pc |-> "idle", last_position |-> 0, current_size |-> 0, events |-> <<>>]

(* the lines another process appends to the log during a run *)
MaxLines == 3

(* "Keep only last 1000 events" *)
EventLimit == 1000

(* the bytes of log line n: its text, which parse_event turns into an      *)
(* event (it holds 'CLIENT' and begins with a timestamp) or does not, and  *)
(* its newline                                                             *)
LogLine(n, client) ==
  <<[line |-> n, nl |-> FALSE, client |-> client],
    [line |-> n, nl |-> TRUE, client |-> client]>>

(* os.path.getsize(log_file): the bytes of the file *)
GetSizeOf(file) == Len(file)

(* "f.seek(self.last_position); new_lines = f.readlines()": the lines from *)
(* the position to the end the file has when it is read, each by its text  *)
ReadLines(file, position) ==
  SelectSeq(SubSeq(file, position + 1, Len(file)), LAMBDA b : ~b.nl)

(* "if 'CLIENT' in line: event = self.parse_event(line)": the events of    *)
(* the lines, each event by the number of its line                         *)
ParseEvents(lines) ==
  LET clients == SelectSeq(lines, LAMBDA b : b.client) IN
  [i \in 1..Len(clients) |-> clients[i].line]

(* "self.events = self.events[-1000:]" *)
KeepLast(seq, n) ==
  IF Len(seq) > n THEN SubSeq(seq, Len(seq) - n + 1, Len(seq)) ELSE seq

SetDb(D) ==
  /\ sessions' = D.sessions
  /\ events' = D.events
  /\ status' = D.status

Init ==
  /\ tz \in TzOffsets
  /\ clock = tz
  /\ sessions = <<>>
  /\ events = <<>>
  /\ status = [t \in Targets |-> NoStatus]
  /\ stability_metrics = <<>>
  /\ mon = [t \in Targets |-> NoMonitor]
  /\ last = LastOp("init", "a", FALSE, FALSE, "none", "ok", NStmts, EmptyDb)
  /\ ret = NoReturn
  /\ loop = [t \in Targets |-> NoLoop]
  /\ ping = EmptyPingDb
  /\ log_file = <<>>
  /\ vpn = NewStatusMonitor

(* one check of a monitor m of target t: the inputs are the time that     *)
(* passed, the probe result, and how the store call ends (after k          *)
(* statements when it does not commit).  After a check that did not raise, *)
(* collect goes on to _analyze_connection_stability, whose                 *)
(* get_stability_metrics inserts a stability_metrics row, unless that      *)
(* INSERT fails; __init__ runs the check alone                             *)
Check(op, m, t, raised) ==
  \E d \in Steps :
    LET now == clock + d IN
    /\ Elapsed(now, tz) <= MaxTime
    /\ \E probe \in BOOLEAN, outcome \in Outcomes :
         LET call == DbCall(m.is_connected, probe)
             m2 == CheckConnectionMon(m, now, probe, outcome)
         IN /\ call = "none" => outcome = "ok"
            /\ \E k \in 0..NStmts, insert \in {"ok", "error"} :
                 LET D2 == CheckConnectionDb(Db, t, now, tz, call, outcome, k)
                 IN /\ outcome = "ok" => k = NStmts
                    /\ (op = "collect" /\ outcome = "ok") \/ insert = "ok"
                    /\ clock' = now
                    /\ SetDb(D2)
                    /\ mon' = [mon EXCEPT ![t] =
                                 IF outcome = "error" /\ raised
                                 THEN NoMonitor ELSE m2]
                    /\ stability_metrics' =
                         IF op = "collect" /\ outcome = "ok"
                         THEN Transaction(stability_metrics,
                                Append(stability_metrics,
                                       StabilityMetricsRow(D2, t, now, tz)),
                                insert)
                         ELSE stability_metrics
                    /\ last' = LastOp(op, t, probe, m.is_connected, call,
                                      outcome, k, Db)
                    /\ UNCHANGED <<others, tz, ret>>

(* ConnectionMonitor(target, db): __init__ runs the first check; when the *)
(* check raises, the constructor raises and no monitor exists              *)
Start(t) ==
  /\ ~mon[t].alive
  /\ Check("start", NewMonitor, t, TRUE)
  /\ UNCHANGED loop

(* ConnectionMonitor.collect: the check of one tick and the analysis that *)
(* follows it; collect catches what they raise                             *)
Collect(t) ==
  /\ mon[t].alive
  /\ Check("collect", mon[t], t, FALSE)
  /\ UNCHANGED loop

(* the monitor process stops between two ticks *)
Stop(t) ==
  /\ mon[t].alive
  /\ mon' = [mon EXCEPT ![t] = NoMonitor]
  /\ last' = LastOp("stop", t, FALSE, mon[t].is_connected, "none", "ok",
                    NStmts, Db)
  /\ UNCHANGED <<others, loop, clock, tz, sessions, events, status, stability_metrics,
                 ret>>

Next ==
  \/ \E t \in Targets : Start(t)
  \/ \E t \in Targets : Collect(t)
  \/ \E t \in Targets : Stop(t)

Spec == Init /\ [][Next]_vars

(* the store driven directly by a single writer: any targets, any order *)
Call(call, t) ==
  \E d \in Steps :
    LET now == clock + d IN
    /\ Elapsed(now, tz) <= MaxTime
    /\ \E outcome \in Outcomes, k \in 0..NStmts :
         /\ outcome = "ok" => k = NStmts
         /\ clock' = now
         /\ SetDb(CheckConnectionDb(Db, t, now, tz, call, outcome, k))
         /\ last' = LastOp(call, t, call = "record_connection",
                           status[t].is_connected, call, outcome, k, Db)
         /\ ret' = NoReturn
         /\ UNCHANGED <<others, loop, tz, mon, stability_metrics>>

RecordConnection(t) == Call("record_connection", t)

RecordDisconnection(t) == Call("record_disconnection", t)

NextDb ==
  \/ \E t \in Targets : RecordConnection(t)
  \/ \E t \in Targets : RecordDisconnection(t)

SpecDb == Init /\ [][NextDb]_vars

(* the local wall clock is set back (daylight saving time ends): local    *)
(* time and its offset to UTC both drop by d, UTC goes on                  *)
SetClockBack ==
  \E d \in 1..TzShift :
    /\ d <= tz
    /\ clock' = clock - d
    /\ tz' = tz - d
    /\ last' = LastOp("set_clock_back", last.target, FALSE, FALSE, "none",
                      "ok", NStmts, Db)
    /\ UNCHANGED <<others, loop, sessions, events, status, stability_metrics, mon, ret>>

NextSkew ==
  \/ \E t \in Targets : RecordConnection(t)
  \/ \E t \in Targets : RecordDisconnection(t)
  \/ SetClockBack

(* a single writer on a host whose wall clock is not monotonic *)
SpecSkew == Init /\ [][NextSkew]_vars

(* record_connection(t) of a second process on the same database file     *)
(* whose SELECT of the active session ran before the first process         *)
(* committed its new session: sqlite3 opens the transaction at the first   *)
(* INSERT, so the SELECT answer "no active session" is stale when the      *)
(* three write statements run                                              *)
StaleRecordConnection(t) ==
  \E d \in Steps :
    LET now == clock + d
        d1 == ConnInsertEvent(Db, t, now, tz)
        d2 == ConnInsertSession(d1, t, now)
        d3 == ConnStatus(d2, t, now)
    IN /\ last.op = "record_connection"
       /\ last.target = t
       /\ ~last.active_before
       /\ last.outcome = "ok"
       /\ Elapsed(now, tz) <= MaxTime
       /\ clock' = now
       /\ SetDb(d3)
       /\ last' = LastOp("stale_record_connection", t, TRUE,
                         status[t].is_connected, "none", "ok", NStmts, Db)
       /\ UNCHANGED <<others, loop, tz, mon, stability_metrics, ret>>

NextTwoWriters ==
  \/ \E t \in Targets : RecordConnection(t)
  \/ \E t \in Targets : RecordDisconnection(t)
  \/ \E t \in Targets : StaleRecordConnection(t)

(* two processes write the same database file *)
SpecTwoWriters == Init /\ [][NextTwoWriters]_vars

(* The stability analysis as a specification *)

(* the analysis as a function of its two inputs: any uptime percentage    *)
(* and any disconnection count up to the bound                             *)
InitAnalysis ==
  /\ tz = 0
  /\ clock = 0
  /\ sessions = <<>>
  /\ events = <<>>
  /\ status = [t \in Targets |-> NoStatus]
  /\ stability_metrics = <<>>
  /\ mon = [t \in Targets |-> NoMonitor]
  /\ last = LastOp("init", "a", FALSE, FALSE, "none", "ok", NStmts, EmptyDb)
  /\ \E u \in 0..100, n \in 0..MaxDisconnections :
       ret = [op |-> "metrics", uptime_percentage |-> u,
              disconnections_24h |-> n]
  /\ loop = [t \in Targets |-> NoLoop]
  /\ ping = EmptyPingDb
  /\ log_file = <<>>
  /\ vpn = NewStatusMonitor

AnalyzeConnectionStability ==
  /\ ret.op = "metrics"
  /\ ret' = analyze_connection_stability(ret.uptime_percentage,
                                         ret.disconnections_24h)
  /\ UNCHANGED <<others, loop, clock, tz, sessions, events, status, stability_metrics,
                 mon,
                 last>>

SpecAnalysis == InitAnalysis /\ [][AnalyzeConnectionStability]_vars

(* The probe of one check, over everything its steps can meet *)
InitProbe ==
  /\ tz = 0
  /\ clock = 0
  /\ sessions = <<>>
  /\ events = <<>>
  /\ status = [t \in Targets |-> NoStatus]
  /\ stability_metrics = <<>>
  /\ mon = [t \in Targets |-> NoMonitor]
  /\ last = LastOp("init", "a", FALSE, FALSE, "none", "ok", NStmts, EmptyDb)
  /\ \E w \in BOOLEAN, so \in SocketOutcomes, r \in ResolveOutcomes,
        c \in ConnectOutcomes, p \in PingOutcomes :
       ret = [op |-> "probe_env", was_connected |-> w, socket |-> so,
              resolve |-> r, connect |-> c, ping |-> p]
  /\ loop = [t \in Targets |-> NoLoop]
  /\ ping = EmptyPingDb
  /\ log_file = <<>>
  /\ vpn = NewStatusMonitor

(* the probe of _check_connection and the store call it leads to *)
CheckConnectionProbe ==
  /\ ret.op = "probe_env"
  /\ ret' = LET result == Probe(ret) IN
            [op |-> "probe", env |-> ret,
             is_connected |-> result.is_connected,
             raised |-> result.raised,
             call |-> IF result.raised THEN "none"
                      ELSE DbCall(ret.was_connected, result.is_connected)]
  /\ UNCHANGED <<others, loop, clock, tz, sessions, events, status, stability_metrics,
                 mon, last>>

SpecProbe == InitProbe /\ [][CheckConnectionProbe]_vars

(* A long run of one monitor: more checks than the history keeps *)

(* the checks that are followed after the history has become full *)
MaxOver == 3

(* the outages of the target during the run, as the seconds from the start *)
(* of the first to the end of the last unreachable second: none, one at    *)
(* the start, one while the history is full                                *)
Outages ==
  {[from |-> 0, to |-> 0], [from |-> 1, to |-> 3],
   [from |-> HistoryLimit, to |-> HistoryLimit + 2]}

(* the run of one monitor: its target, the seconds from one check to the   *)
(* next, the outage of the target                                          *)
Schedules ==
  [target : Targets, step : Steps, outage : Outages]

(* what the probe finds at time now *)
Reachable(schedule, now, offset) ==
  ~(/\ schedule.outage.from <= Elapsed(now, offset)
    /\ Elapsed(now, offset) < schedule.outage.to)

InitHistory ==
  /\ tz \in TzOffsets
  /\ clock = tz
  /\ sessions = <<>>
  /\ events = <<>>
  /\ status = [t \in Targets |-> NoStatus]
  /\ stability_metrics = <<>>
  /\ mon = [t \in Targets |-> NoMonitor]
  /\ last = LastOp("init", "a", FALSE, FALSE, "none", "ok", NStmts, EmptyDb)
  /\ ret \in {[op |-> "schedule", schedule |-> s] : s \in Schedules}
  /\ loop = [t \in Targets |-> NoLoop]
  /\ ping = EmptyPingDb
  /\ log_file = <<>>
  /\ vpn = NewStatusMonitor

(* _check_connection of the monitor m of the run: the probe, the store     *)
(* call of an edge, which commits, raises or is cut short by the end of    *)
(* the process, and the history entry of a check whose store call did not  *)
(* raise                                                                   *)
CheckScheduled(op, m, raised) ==
  LET schedule == ret.schedule
      t == schedule.target
      now == clock + schedule.step
      probe == Reachable(schedule, now, tz)
      call == DbCall(m.is_connected, probe)
  IN /\ Elapsed(now, tz) <= (HistoryLimit + MaxOver) * schedule.step
     /\ \E outcome \in Outcomes, k \in 0..NStmts :
          /\ call = "none" => outcome = "ok"
          /\ outcome = "ok" => k = NStmts
          /\ clock' = now
          /\ SetDb(CheckConnectionDb(Db, t, now, tz, call, outcome, k))
          /\ mon' = [mon EXCEPT ![t] =
                       IF outcome = "error" /\ raised THEN NoMonitor
                       ELSE CheckConnectionMon(m, now, probe, outcome)]
          /\ last' = LastOp(op, t, probe, m.is_connected, call, outcome, k,
                            Db)
          /\ ret' = [op |-> "_check_connection", schedule |-> schedule]
          /\ UNCHANGED <<others, tz, stability_metrics, loop>>

(* ConnectionMonitor(target, db) of the run: __init__ and its first check *)
Construct ==
  /\ ret.op = "schedule"
  /\ CheckScheduled("start", NewMonitor, TRUE)

(* _check_connection of a later tick of the run *)
CheckConnection ==
  /\ ret.op = "_check_connection"
  /\ mon[ret.schedule.target].alive
  /\ CheckScheduled("check", mon[ret.schedule.target], FALSE)

NextHistory ==
  \/ Construct
  \/ CheckConnection

SpecHistory == InitHistory /\ [][NextHistory]_vars

(* The queries as actions *)

(* a call of get_connection_stats(t) with the default window *)
GetConnectionStats(t) ==
  \E d \in Steps :
    LET now == clock + d IN
    /\ Elapsed(now, tz) <= MaxTime
    /\ clock' = now
    /\ ret' = get_connection_stats(Db, t, now, tz, DefaultDays)
    /\ last' = LastOp("get_connection_stats", t, FALSE,
                      status[t].is_connected, "none", "ok", NStmts, Db)
    /\ UNCHANGED <<others, loop, tz, sessions, events, status, stability_metrics, mon>>

(* a call of get_stability_metrics(t); when the INSERT fails the call      *)
(* raises and no row is kept                                               *)
GetStabilityMetricsKeepsLatest(t) ==
  \E d \in Steps :
    LET now == clock + d
        row == StabilityMetricsRow(Db, t, now, tz)
    IN /\ Elapsed(now, tz) <= MaxTime
       /\ clock' = now
       /\ stability_metrics' =
            Append(SelectSeq(stability_metrics, LAMBDA r : r.target # t), row)
       /\ ret' = get_stability_metrics(row)
       /\ last' = LastOp("get_stability_metrics", t, FALSE,
                         status[t].is_connected, "none", "ok", NStmts, Db)
       /\ UNCHANGED <<others, loop, tz, sessions, events, status, mon>>
GetStabilityMetrics(t) ==
  \E d \in Steps, outcome \in {"ok", "error"} :
    LET now == clock + d
        row == StabilityMetricsRow(Db, t, now, tz)
    IN /\ Elapsed(now, tz) <= MaxTime
       /\ clock' = now
       /\ stability_metrics' =
            Transaction(stability_metrics, Append(stability_metrics, row),
                        outcome)
       /\ ret' = IF outcome = "ok" THEN get_stability_metrics(row)
                 ELSE [op |-> "get_stability_metrics", target |-> t,
                       raised |-> TRUE]
       /\ last' = LastOp("get_stability_metrics", t, FALSE,
                         status[t].is_connected, "none", outcome, NStmts, Db)
       /\ UNCHANGED <<others, loop, tz, sessions, events, status, mon>>

(* a call of get_target_status(t) *)
GetTargetStatus(t) ==
  \E d \in Steps :
    LET now == clock + d IN
    /\ Elapsed(now, tz) <= MaxTime
    /\ clock' = now
    /\ ret' = get_target_status(Db, t, now)
    /\ last' = LastOp("get_target_status", t, FALSE,
                      status[t].is_connected, "none", "ok", NStmts, Db)
    /\ UNCHANGED <<others, loop, tz, sessions, events, status, stability_metrics, mon>>

NextQuery ==
  \/ \E t \in Targets : RecordConnection(t)
  \/ \E t \in Targets : RecordDisconnection(t)
  \/ \E t \in Targets : GetConnectionStats(t)
  \/ \E t \in Targets : GetStabilityMetrics(t)
  \/ \E t \in Targets : GetTargetStatus(t)

(* a single writer and the readers of its store *)
SpecQuery == Init /\ [][NextQuery]_vars

(* the days one sleep of the loop can last: a day, or the whole default     *)
(* window of the queries                                                    *)
SleepDays == {1, DefaultDays}

(* time.sleep in the monitoring loop: nothing is written or read for n      *)
(* whole days; a sleep of n days is followed while fewer than n days have   *)
(* passed                                                                   *)
Sleep ==
  \E n \in SleepDays :
    /\ DateOf(CurrentTimestamp(clock, tz)) < n
    /\ clock' = clock + n * SecondsPerDay
    /\ last' = LastOp("sleep", last.target, FALSE, FALSE, "none", "ok",
                      NStmts, Db)
    /\ UNCHANGED <<others, loop, tz, sessions, events, status, stability_metrics, mon,
                   ret>>

NextLongRun ==
  \/ \E t \in Targets : RecordConnection(t)
  \/ \E t \in Targets : RecordDisconnection(t)
  \/ \E t \in Targets : GetConnectionStats(t)
  \/ \E t \in Targets : GetStabilityMetrics(t)
  \/ Sleep

(* a single writer and the readers of its store over more than a window *)
SpecLongRun == Init /\ [][NextLongRun]_vars

(* The monitoring loop of one target: NetworkMonitor.run without a        *)
(* duration limit                                                          *)

(* NetworkMonitor(target, interval): the seconds the loop sleeps after a   *)
(* cycle, and so the time from the start of a cycle to the next tick of a  *)
(* fixed schedule                                                          *)
Interval == 1

(* a step of the loop of t that reads and writes nothing but the loop *)
LoopStep(op, t, l) ==
  /\ loop' = [loop EXCEPT ![t] = l]
  /\ last' = LastOp(op, t, FALSE, mon[t].is_connected, "none", "ok", NStmts,
                    Db)

(* NetworkMonitor(target).run(): init_monitors constructs the              *)
(* ConnectionMonitor, whose __init__ runs the first check; when that       *)
(* raises, no loop starts                                                  *)
Launch(t) ==
  /\ loop[t].pc = "off"
  /\ ~mon[t].alive
  /\ Check("start", NewMonitor, t, TRUE)
  /\ loop' = [loop EXCEPT ![t] = IF mon'[t].alive
                                 THEN [NoLoop EXCEPT !.pc = "top"]
                                 ELSE NoLoop]

(* "while True:" is reached again only when the sleep of the previous      *)
(* cycle has returned                                                      *)
BeginsCycleOnTimer(l) == l.pc # "off"
BeginsCycle(l) == l.pc = "top"

(* the duration limit is not reached: a cycle begins *)
BeginCycle(t) ==
  /\ BeginsCycle(loop[t])
  /\ LoopStep("begin_cycle", t,
              [pc |-> "collect", in_progress |-> loop[t].in_progress + 1,
               cycle_start |-> clock])
  /\ UNCHANGED <<others, clock, tz, sessions, events, status, stability_metrics,
                 mon, ret>>

(* collect_metrics and save_metrics: monitor.collect() of the             *)
(* ConnectionMonitor, then the metrics are logged and the cycle is         *)
(* finished; the process may be ended during the store call                *)
CollectMetrics(t) ==
  /\ loop[t].pc = "collect"
  /\ mon[t].alive
  /\ Check("collect", mon[t], t, FALSE)
  /\ loop' = [loop EXCEPT ![t] =
                IF mon'[t].alive
                THEN [loop[t] EXCEPT !.pc = "sleep",
                                     !.in_progress = loop[t].in_progress - 1]
                ELSE NoLoop]

(* time.sleep(self.interval) *)
SleepInterval(t) ==
  /\ loop[t].pc = "sleep"
  /\ Elapsed(clock + Interval, tz) <= MaxTime
  /\ clock' = clock + Interval
  /\ LoopStep("sleep", t, [loop[t] EXCEPT !.pc = "top"])
  /\ UNCHANGED <<others, tz, sessions, events, status, stability_metrics, mon, ret>>

(* KeyboardInterrupt (or a signal that ends the process) while no store    *)
(* call is running: "except KeyboardInterrupt" ends run                    *)
Interrupt(t) ==
  /\ loop[t].pc # "off"
  /\ mon' = [mon EXCEPT ![t] = NoMonitor]
  /\ LoopStep("interrupt", t, NoLoop)
  /\ UNCHANGED <<others, clock, tz, sessions, events, status, stability_metrics, ret>>

NextLoop ==
  \/ \E t \in Targets : Launch(t)
  \/ \E t \in Targets : BeginCycle(t)
  \/ \E t \in Targets : CollectMetrics(t)
  \/ \E t \in Targets : SleepInterval(t)
  \/ \E t \in Targets : Interrupt(t)

(* one monitoring loop per target on the shared store *)
SpecLoop == Init /\ [][NextLoop]_vars

(* The ping store as a specification *)

(* a call of add_target(t) *)
AddTarget(t) ==
  \E outcome \in Outcomes :
    /\ ping' = add_target(ping, t, outcome)
    /\ ret' = [op |-> "add_target", raised |-> outcome # "ok",
               id |-> IF outcome = "ok" THEN TargetId(ping', t) ELSE NULL]
    /\ UNCHANGED <<clock, tz, sessions, events, status, stability_metrics,
                   mon, last, loop, log_file, vpn>>

(* a call of store_ping_result(data): add_target is called when the target *)
(* is a string, the conversions run when add_target has returned, and a    *)
(* value that cannot be converted raises before the first statement        *)
StorePingResult ==
  /\ Len(ping.metrics) < MaxPings
  /\ \E data \in PingData, add_outcome \in Outcomes :
       /\ ~data.is_str => add_outcome = "ok"
       /\ \E outcome \in Outcomes, k \in 0..PingStmts(data) :
            /\ (~data.is_str \/ add_outcome # "ok")
                 => outcome = "error" /\ k = 0
            /\ outcome = "ok" => data.convertible /\ k = PingStmts(data)
            /\ ~data.convertible => outcome = "error" /\ k = 0
            /\ ping' = store_ping_result(ping, data, add_outcome, outcome, k)
            /\ ret' = [op |-> "store_ping_result", data |-> data,
                       raised |-> StorePingRaises(data, add_outcome, outcome),
                       id |-> IF StorePingRaises(data, add_outcome, outcome)
                              THEN NULL ELSE Len(ping'.metrics)]
            /\ UNCHANGED <<clock, tz, sessions, events, status,
                           stability_metrics, mon, last, loop, log_file, vpn>>

NextPing ==
  \/ \E t \in Targets : AddTarget(t)
  \/ StorePingResult

SpecPing == Init /\ [][NextPing]_vars

(* The OpenVPN log monitor as a specification *)

(* the OpenVPN process appends a line to its log *)
AppendLine ==
  \E client \in BOOLEAN :
    /\ Len(log_file) < 2 * MaxLines
    /\ log_file' = log_file \o LogLine(Len(log_file) \div 2 + 1, client)
    /\ UNCHANGED <<clock, tz, sessions, events, status, stability_metrics,
                   mon, last, ret, loop, ping, vpn>>

(* monitor_events, "Get current file size": the size is read, and the      *)
(* position is reset when the file is smaller than the position            *)
GetSize ==
  /\ vpn.pc = "idle"
  /\ vpn' = [vpn EXCEPT !.pc = "read",
                        !.current_size = GetSizeOf(log_file),
                        !.last_position =
                           IF GetSizeOf(log_file) < @ THEN 0 ELSE @]
  /\ UNCHANGED <<clock, tz, sessions, events, status, stability_metrics,
                 mon, last, ret, loop, ping, log_file>>

(* monitor_events, "Read new lines" to its end: the file is read from the  *)
(* position to its end, the position becomes the size read before, and the *)
(* lines read are parsed into events                                       *)
ReadNewLines ==
  /\ vpn.pc = "read"
  /\ vpn' = [vpn EXCEPT
               !.pc = "idle",
               !.last_position = vpn.current_size,
               !.events =
                  KeepLast(@ \o ParseEvents(ReadLines(log_file,
                                                      vpn.last_position)),
                           EventLimit)]
  /\ UNCHANGED <<clock, tz, sessions, events, status, stability_metrics,
                 mon, last, ret, loop, ping, log_file>>

NextLog ==
  \/ AppendLine
  \/ GetSize
  \/ ReadNewLines

SpecLog == Init /\ [][NextLog]_vars

(* the values the variables take *)
TypeOK ==
  /\ clock \in 0..(MaxTime + TzShift)
  /\ tz \in 0..TzShift
  /\ \A i \in DOMAIN sessions :
       /\ sessions[i].target \in Targets
       /\ sessions[i].status \in {"active", "ended"}
  /\ \A i \in DOMAIN events :
       /\ events[i].target \in Targets
       /\ events[i].event_type \in {"connected", "disconnected"}
  /\ \A t \in Targets : status[t].is_connected \in BOOLEAN
  /\ \A t \in Targets : mon[t].alive \in BOOLEAN

----------------------------------------------------------------------------
(* Claims *)

Ticks == {"start", "collect"}

(* the connection_events rows of target t with the given event_type *)
EventsOf(t, type) ==
  {i \in DOMAIN events : events[i].target = t /\ events[i].event_type = type}

(* the connection_sessions rows of target t *)
SessionsOf(t) == {i \in DOMAIN sessions : sessions[i].target = t}

EndedSessionsOf(t) == {i \in SessionsOf(t) : sessions[i].status = "ended"}

(* C1: whatever record_connection and record_disconnection calls a single *)
(* writer makes, every target has at most one 'active' session row.        *)
C1_AtMostOneActive ==
  \A t \in Targets : Cardinality(ActiveSessions(Db, t)) <= 1

(* a record_connection committed for a target whose session was already   *)
(* active, after earlier sessions were opened                              *)
C1_Witness ==
  /\ last.op = "record_connection"
  /\ last.active_before
  /\ last.outcome = "ok"
  /\ Len(sessions) >= 2
  /\ Cardinality(ActiveSessions(Db, last.target)) = 1

(* MIN(timestamp) of the target's events: first_seen *)
FirstSeen(t) ==
  LET ts == {events[i].timestamp :
               i \in EventsOf(t, "connected") \cup EventsOf(t, "disconnected")}
  IN CHOOSE x \in ts : \A y \in ts : x <= y

Abs(x) == IF x < 0 THEN -x ELSE x

(* C2: after every tick of a target, total_uptime + total_downtime +      *)
(* consecutive_status_duration is the time elapsed since first_seen, up to *)
(* one tick.                                                               *)
C2_TimeAccounting ==
  \A t \in Targets :
    (/\ last.op \in Ticks
     /\ last.target = t
     /\ last.outcome = "ok"
     /\ status[t].present
     /\ EventsOf(t, "connected") # {})
    => Abs((status[t].total_uptime + status[t].total_downtime
            + status[t].consecutive_status_duration)
           - (CurrentTimestamp(clock, tz) - FirstSeen(t))) <= MaxStep

(* C3: for a running monitor, the 'connected' events of its target are as *)
(* many as the 'disconnected' events, or one more when the monitor's       *)
(* current state is connected.                                             *)
C3_EventBalance ==
  \A t \in Targets :
    mon[t].alive =>
      LET c == Cardinality(EventsOf(t, "connected"))
          d == Cardinality(EventsOf(t, "disconnected"))
      IN c = d \/ (c = d + 1 /\ mon[t].is_connected)

(* C4: total_uptime never decreases, and when a monitor closes a session  *)
(* that was opened before the monitor was constructed, total_uptime grows  *)
(* by exactly the duration of that session.                                *)
C4_ResumedSessionCountedOnce ==
  [][\A t \in Targets :
       /\ status'[t].total_uptime >= status[t].total_uptime
       /\ (/\ last'.op = "collect"
           /\ last'.target = t
           /\ last'.call = "record_disconnection"
           /\ last'.outcome = "ok"
           /\ last'.active_before
           /\ sessions[LatestActive(Db, t)].start_time
                < mon[t].status_history[1].timestamp)
          => status'[t].total_uptime - status[t].total_uptime
               = sessions'[LatestActive(Db, t)].duration]_vars

(* no event without its session change, no connected status without an    *)
(* active session                                                          *)
NoPartialWrite ==
  \A t \in Targets :
    /\ Cardinality(EventsOf(t, "connected")) = Cardinality(SessionsOf(t))
    /\ Cardinality(EventsOf(t, "disconnected"))
         = Cardinality(EndedSessionsOf(t))
    /\ status[t].is_connected => ActiveSessions(Db, t) # {}

(* C5: a record_connection or record_disconnection call, however it ends, *)
(* leaves the store as it was before the call or as the complete call      *)
(* makes it; no event is stored without its session change and no status   *)
(* is connected without an active session.                                 *)
C5_AtomicCalls ==
  [][/\ last'.call = "record_connection" =>
          \/ Db' = Db
          \/ Db' = RecordConnectionStmts(Db, last'.target, clock', tz, NStmts)
     /\ last'.call = "record_disconnection" =>
          \/ Db' = Db
          \/ Db' = RecordDisconnectionStmts(Db, last'.target, clock', tz,
                                            NStmts)
     /\ NoPartialWrite']_vars

(* a call that failed after some but not all of its statements had        *)
(* written rows                                                            *)
C5_Witness ==
  /\ last.call \in {"record_connection", "record_disconnection"}
  /\ last.outcome \in {"error", "crash"}
  /\ last.k \in 1..(NStmts - 1)
  /\ (last.call = "record_connection") = ~last.active_before

(* C6: a monitor constructed for a target that has a target_status row    *)
(* evaluates its first probe against the persisted is_connected.           *)
C6_RehydratesOnStart ==
  [][(last'.op = "start" /\ status[last'.target].present)
       => last'.was_connected = status[last'.target].is_connected]_vars

(* C7: every completed tick writes the target_status row: last_check is   *)
(* the tick time and, without a transition, consecutive_status_duration    *)
(* grows by the time since the previous check.                             *)
C7_StatusWrittenEveryTick ==
  [][(last'.op \in Ticks /\ last'.outcome = "ok") =>
       LET t == last'.target IN
       /\ status'[t].present
       /\ status'[t].last_check = clock'
       /\ (status[t].present /\ last'.call = "none") =>
            status'[t].consecutive_status_duration
              = status[t].consecutive_status_duration
                + (clock' - status[t].last_check)]_vars

(* C8: session and event rows change only in a tick whose probe result    *)
(* differs from the monitor's state; a tick whose probe result equals it   *)
(* leaves both tables as they were.                                        *)
C8_EdgeTriggeredRows ==
  [][(sessions' # sessions \/ events' # events)
       => (last'.op \in Ticks /\ last'.probe # last'.was_connected)]_vars

(* a tick without a transition for a target that has an active session *)
C8_Witness ==
  /\ last.op \in Ticks
  /\ last.probe = last.was_connected
  /\ last.active_before
  /\ Len(events) >= 1

(* C9: every 'disconnected' event has exactly one ended session of its    *)
(* target with the event's duration, ended at the instant the event was    *)
(* recorded.                                                               *)
C9_DisconnectedEventHasSession ==
  \A e \in DOMAIN events :
    events[e].event_type = "disconnected" =>
      Cardinality({i \in EndedSessionsOf(events[e].target) :
                     /\ sessions[i].duration = events[e].session_duration
                     /\ CurrentTimestamp(sessions[i].end_time, tz)
                          = events[e].timestamp}) = 1

(* two disconnections of one target with the same session duration *)
C9_Witness ==
  \E e1, e2 \in DOMAIN events :
    /\ e1 < e2
    /\ events[e1].event_type = "disconnected"
    /\ events[e2].event_type = "disconnected"
    /\ events[e1].target = events[e2].target
    /\ events[e1].session_duration = events[e2].session_duration

(* C10: record_connection for a target that has an active session leaves  *)
(* the session rows and the event rows as they were, each time it is       *)
(* called.                                                                 *)
C10_RecordConnectionIdempotent ==
  [][(last'.call = "record_connection" /\ last'.active_before)
       => (sessions' = sessions /\ events' = events)]_vars

(* a second committed record_connection in a row on a connected target:   *)
(* its bookkeeping ran, on a status the first repetition had updated       *)
C10_Witness ==
  /\ last.call = "record_connection"
  /\ last.active_before
  /\ last.outcome = "ok"
  /\ status[last.target].is_connected
  /\ status[last.target].consecutive_status_duration
       > clock - status[last.target].last_status_change

(* C11: record_disconnection for a target without an active session      *)
(* changes no session row and appends no event; of the target_status rows  *)
(* only the target's own is created or updated.                            *)
C11_DisconnectionWithoutSession ==
  [][(last'.call = "record_disconnection" /\ ~last'.active_before) =>
       /\ sessions' = sessions
       /\ events' = events
       /\ \A u \in Targets \ {last'.target} : status'[u] = status[u]
       /\ last'.outcome = "ok" =>
            /\ status'[last'.target].present
            /\ status'[last'.target].last_check = clock']_vars

(* a committed record_disconnection for a target without an active        *)
(* session, in a store that holds sessions and the status row of another   *)
(* target                                                                  *)
C11_Witness ==
  /\ last.call = "record_disconnection"
  /\ ~last.active_before
  /\ last.outcome = "ok"
  /\ Len(sessions) >= 1
  /\ \E u \in Targets \ {last.target} : status[u].present

(* C12: after a tick whose store call failed with a storage error, the    *)
(* next tick of the same monitor that observes the same probe result makes *)
(* the same store call again.                                              *)
C12_FailedWriteRetried ==
  [][(/\ last.op = "collect"
      /\ last.outcome = "error"
      /\ last'.op = "collect"
      /\ last'.target = last.target
      /\ last'.probe = last.probe)
       => last'.call = last.call]_vars

(* C13: a store call whose time is not later than the target's stored     *)
(* last_check changes no persisted state, and last_check only ever         *)
(* increases.                                                              *)
C13_StaleTimestampRejected ==
  [][/\ (/\ last'.call \in {"record_connection", "record_disconnection"}
         /\ status[last'.target].present
         /\ clock' <= status[last'.target].last_check)
        => Db' = Db
     /\ \A t \in Targets :
          (status[t].present /\ status'[t].last_check # status[t].last_check)
            => status'[t].last_check > status[t].last_check]_vars

(* the oldest active session of target t *)
OldestActive(D, t) ==
  CHOOSE i \in ActiveSessions(D, t) : \A j \in ActiveSessions(D, t) : i <= j

(* C14: a committed record_connection or record_disconnection that finds  *)
(* two or more active sessions of its target leaves at most one of them    *)
(* active, and not the oldest one.                                         *)
C14_TwoActiveRepaired ==
  [][(/\ last'.call \in {"record_connection", "record_disconnection"}
      /\ last'.outcome = "ok"
      /\ Cardinality(ActiveSessions(Db, last'.target)) >= 2)
       => /\ Cardinality(ActiveSessions(Db', last'.target)) <= 1
          /\ sessions'[OldestActive(Db, last'.target)].status # "active"]_vars

(* the value between lo and hi nearest to x *)
Clamp(x, lo, hi) == IF x < lo THEN lo ELSE IF x > hi THEN hi ELSE x

(* C15 as stated: for every uptime percentage in 0..100 and every         *)
(* disconnection count, the rating is                                      *)
(* clamp(100 - min(count * 10, 50) - min((100 - uptime) * 2, 50), 0, 100)  *)
(* and lies in 0..100.                                                     *)
C15_RatingFormula ==
  ret.op = "analyze_connection_stability" =>
    /\ ret.rating =
         Clamp(100 - Min(ret.recent_disconnections * 10, 50)
                   - Min((100 - ret.uptime_percentage) * 2, 50), 0, 100)
    /\ ret.rating \in 0..100

(* C15 amended: the uptime penalty min((100 - uptime) * 2, 50) is taken   *)
(* off only when uptime is below 99; the disconnection penalty             *)
(* min(count * 10, 50) always; the rating lies in 0..100.                  *)
C15_RatingFormulaBelow99 ==
  ret.op = "analyze_connection_stability" =>
    LET uptime_penalty ==
          IF ret.uptime_percentage >= 99 THEN 0
          ELSE Min((100 - ret.uptime_percentage) * 2, 50)
    IN /\ ret.rating + uptime_penalty
            + Min(ret.recent_disconnections * 10, 50) = 100
       /\ ret.rating \in 0..100

(* an uptime of 99 with the disconnection penalty at its cap *)
C15_Witness ==
  /\ ret.op = "analyze_connection_stability"
  /\ ret.uptime_percentage = 99
  /\ ret.recent_disconnections > 5
  /\ ret.rating = 50

(* the category of a rating *)
CategoryOf(rating) ==
  IF rating >= 99 THEN "excellent"
  ELSE IF rating >= 95 THEN "good"
  ELSE IF rating >= 80 THEN "fair"
  ELSE IF rating >= 50 THEN "poor"
  ELSE "critical"

(* the reason string by which the analysis reports each category *)
CategoryReason ==
  [excellent |-> "Consistent uptime with minimal disconnections",
   good |-> "Generally stable with occasional disconnections",
   fair |-> "Somewhat stable but with periodic disconnections",
   poor |-> "Frequent disconnections affecting service quality",
   critical |-> "Severe connection issues affecting service usability"]

Range(q) == {q[i] : i \in DOMAIN q}

(* C17: the recommendations hold 'check network configuration' exactly    *)
(* when rating < 80, 'investigate frequent disconnections' exactly when    *)
(* the disconnections of the last 24 h exceed 5, 'consider alternate       *)
(* routing' exactly when rating < 50, each at most once; 6 disconnections  *)
(* with an uptime of 70 give rating 0, 'critical' and all three.           *)
C17_Recommendations ==
  ret.op = "analyze_connection_stability" =>
    LET recs == Range(ret.recommendations) IN
    /\ ("Check network configuration for issues" \in recs)
         <=> ret.rating < 80
    /\ ("Investigate causes of frequent disconnections" \in recs)
         <=> ret.recent_disconnections > 5
    /\ ("Consider alternative VPN routing or connectivity" \in recs)
         <=> ret.rating < 50
    /\ Cardinality(recs) = Len(ret.recommendations)
    /\ Cardinality(recs) <= 3
    /\ (ret.recent_disconnections = 6 /\ ret.uptime_percentage = 70)
         => /\ ret.rating = 0
            /\ ret.reason = CategoryReason.critical
            /\ Cardinality(recs) = 3

(* the analysis of 6 disconnections with an uptime of 70 *)
C17_Witness ==
  /\ ret.op = "analyze_connection_stability"
  /\ ret.recent_disconnections = 6
  /\ ret.uptime_percentage = 70
  /\ ret.rating = 0
  /\ Len(ret.recommendations) = 3

Queries == {"get_connection_stats", "get_stability_metrics"}

(* C18: get_connection_stats reports, for a target with an active         *)
(* session, the time from the session's start_time to the time of the      *)
(* call as the session's duration, never the duration stored in the row.   *)
C18_LiveDuration ==
  (ret.op = "get_connection_stats" /\ ret.has_current_session) =>
    ret.current_session_duration = clock - ret.current_session_start

(* the time target t was connected up to now: its ended sessions and the  *)
(* live duration of its active session                                     *)
ConnectedTime(t, now) ==
  LET rows == {i \in DOMAIN sessions : sessions[i].target = t} IN
  Sum([i \in rows |-> IF sessions[i].status = "ended"
                       THEN sessions[i].duration
                       ELSE now - sessions[i].start_time], rows)

(* the time target t was monitored up to now, within the window *)
MonitoredTime(t, now, offset, window) ==
  Min(CurrentTimestamp(now, offset) - MinTimestamp(Db, t), window)

(* C19: the uptime_percentage that get_connection_stats and               *)
(* get_stability_metrics report is the connected time, the active          *)
(* session's live duration included, over the monitored time               *)
(* min(now - first_seen, window), times 100; so it is 100 for a target     *)
(* connected ever since first_seen.  Stated for a host whose local time    *)
(* is UTC.                                                                 *)
C19_UptimeDefinition ==
  (/\ tz = 0
   /\ ret.op \in Queries
   /\ ~ret.raised
   /\ TargetEvents(Db, ret.target) # {}
   /\ MonitoredTime(ret.target, clock, tz, DefaultDays * SecondsPerDay) > 0)
    => ret.uptime_percentage =
         Percent(ConnectedTime(ret.target, clock),
                 MonitoredTime(ret.target, clock, tz,
                               DefaultDays * SecondsPerDay))

(* C20: every uptime_percentage that get_connection_stats or              *)
(* get_stability_metrics returns lies in 0..100.                           *)
C20_UptimeInRange ==
  /\ (ret.op = "get_connection_stats" /\ ret.has_uptime_percentage)
       => ret.uptime_percentage \in 0..100
  /\ (ret.op = "get_stability_metrics" /\ ~ret.raised)
       => ret.uptime_percentage \in 0..100


(* C21: between two successive observations of a target's uptime           *)
(* percentage with no change of state in between, the percentage does not  *)
(* fall while the target is connected and does not rise while it is         *)
(* disconnected                                                             *)
C21_UptimeMonotone ==
  [][(/\ ret.op \in Queries
      /\ ret'.op = ret.op
      /\ ret'.target = ret.target
      /\ ~ret.raised /\ ~ret'.raised
      /\ ret.uptime_percentage # NULL /\ ret'.uptime_percentage # NULL)
     => /\ ActiveSessions(Db, ret.target) # {}
             => ret'.uptime_percentage >= ret.uptime_percentage
        /\ ActiveSessions(Db, ret.target) = {}
             => ret'.uptime_percentage <= ret.uptime_percentage]_vars

(* the four successful checks of one monitor of t found up, up, down, up,  *)
(* one smallest step apart (no other check fits in between), and nothing   *)
(* of t was in the store before the first of them                          *)
UpUpDownUp(t) ==
  LET h == mon[t].status_history IN
  /\ Len(h) = 4
  /\ <<h[1].connected, h[2].connected, h[3].connected, h[4].connected>>
       = <<TRUE, TRUE, FALSE, TRUE>>
  /\ \A i \in 1..3 : h[i + 1].timestamp = h[i].timestamp + 1
  /\ \A i \in SessionsOf(t) : sessions[i].start_time >= h[1].timestamp
  /\ \A e \in TargetEvents(Db, t) :
       events[e].timestamp >= CurrentTimestamp(h[1].timestamp, tz)

(* the store after the four probes: one ended session of the given         *)
(* duration, one active session, total_uptime the ended session's duration *)
OneEndedOneActive(t, duration) ==
  /\ Cardinality(EndedSessionsOf(t)) = 1
  /\ \A i \in EndedSessionsOf(t) : sessions[i].duration = duration
  /\ Cardinality(ActiveSessions(Db, t)) = 1
  /\ status[t].total_uptime = duration

(* C22: from an empty store the probes up, up, down, up at equal spacing   *)
(* leave exactly one ended session whose duration is one spacing, exactly  *)
(* one active session, and a total_uptime equal to the ended session's     *)
(* duration                                                                *)
C22_UpUpDownUp ==
  \A t \in Targets :
    UpUpDownUp(t) =>
      LET h == mon[t].status_history IN
      OneEndedOneActive(t, h[2].timestamp - h[1].timestamp)

(* C22 amended: the ended session lasted from the first probe to the       *)
(* third, two spacings                                                     *)
C22_UpUpDownUpTwoSpacings ==
  \A t \in Targets :
    UpUpDownUp(t) =>
      LET h == mon[t].status_history IN
      OneEndedOneActive(t, h[3].timestamp - h[1].timestamp)

(* the four probes were made *)
C22_Witness == \E t \in Targets : UpUpDownUp(t)

(* no table of the store holds a row of t *)
NeverProbed(t) ==
  /\ SessionsOf(t) = {}
  /\ TargetEvents(Db, t) = {}
  /\ ~status[t].present
  /\ \A i \in DOMAIN stability_metrics : stability_metrics[i].target # t

(* C23: for a target with no row in any table get_target_status returns   *)
(* is_connected = false, total_uptime = 0 and first_seen = null            *)
C23_NeverProbedDefault ==
  (ret.op = "get_target_status" /\ NeverProbed(ret.target)) =>
    /\ ret.is_connected = FALSE
    /\ ret.total_uptime = 0
    /\ ret.first_seen = NULL

(* get_target_status of a target never probed, on a store that holds rows *)
(* of the other target                                                     *)
C23_Witness ==
  /\ ret.op = "get_target_status"
  /\ NeverProbed(ret.target)
  /\ \E u \in Targets : u # ret.target /\ status[u].present

(* C24: for each target at most one cycle is in progress; a cycle begins   *)
(* only when the previous one has finished, also when that one ran past    *)
(* the next tick of the schedule                                           *)
C24_OneCycleAtATime ==
  [][\A t \in Targets :
       /\ loop'[t].in_progress <= 1
       /\ loop'[t].in_progress > loop[t].in_progress
            => loop[t].in_progress = 0]_vars

(* a cycle still in progress when the next tick of the schedule is due *)
C24_Witness ==
  \E t \in Targets :
    /\ loop[t].in_progress = 1
    /\ clock >= loop[t].cycle_start + Interval

(* the store as the statements that ran in the last store call left it    *)
(* before the call committed or was rolled back                            *)
Uncommitted(D, l, now, offset) ==
  CASE l.call = "record_connection" ->
         RecordConnectionStmts(D, l.target, now, offset, l.k)
    [] l.call = "record_disconnection" ->
         RecordDisconnectionStmts(D, l.target, now, offset, l.k)
    [] OTHER -> D

(* the loop of t had a cycle in progress and this step ends the process *)
StoppedInFlight(t) ==
  /\ loop[t].in_progress = 1
  /\ loop'[t].pc = "off"

(* C26: when the process is stopped while a cycle is in flight, the store  *)
(* call of the cycle has committed or has written nothing yet; the loop    *)
(* has no cycle in progress afterwards and no session is left half-closed  *)
C26_ShutdownFinishesWrite ==
  [][\A t \in Targets :
       StoppedInFlight(t) =>
         /\ last'.outcome # "ok" => Uncommitted(Db, last', clock', tz) = Db
         /\ loop'[t].in_progress = 0
         /\ NoPartialWrite']_vars

(* the rows of t in a table, in the order of their ids *)
RowsOf(table, t) == SelectSeq(table, LAMBDA r : r.target = t)

(* C25: when the cycles of several targets interleave on one store, a     *)
(* step made for one target leaves the session, event and status rows of   *)
(* every other target unchanged, and every target keeps at most one active *)
(* session and as many 'connected' as 'disconnected' events, or one more   *)
(* while its stored status is connected                                    *)
C25_TargetsIsolated ==
  [][\A t \in Targets :
       /\ t # last'.target =>
            /\ RowsOf(sessions', t) = RowsOf(sessions, t)
            /\ RowsOf(events', t) = RowsOf(events, t)
            /\ status'[t] = status[t]
       /\ Cardinality(ActiveSessions(Db', t)) <= 1
       /\ LET c == Cardinality(EventsOf(t, "connected")')
              d == Cardinality(EventsOf(t, "disconnected")')
          IN c = d \/ (c = d + 1 /\ status'[t].is_connected)]_vars

(* the cycle of one target closed its session while the other target had  *)
(* an active session                                                       *)
C25_Witness ==
  \E t \in Targets :
    /\ t # last.target
    /\ ActiveSessions(Db, t) # {}
    /\ last.op = "collect"
    /\ last.call = "record_disconnection"
    /\ last.outcome = "ok"
    /\ last.active_before

(* the steps of the probe that ran, given what the earlier ones met *)
ResolveRan(env) == env.socket = "ok"
ConnectRan(env) == ResolveRan(env) /\ env.resolve # "raises"
PingRan(env) == ConnectRan(env) /\ env.connect = "errno"

(* a step of the probe that ran raised an exception *)
ProbeRaised(env) ==
  \/ env.socket = "raises"
  \/ ResolveRan(env) /\ env.resolve = "raises"
  \/ ConnectRan(env) /\ env.connect = "raises"
  \/ PingRan(env) /\ env.ping = "raises"

(* a step of the probe that ran met an error of any kind: an exception, a  *)
(* name that does not resolve, a connect that fails or times out, a ping   *)
(* that fails or times out                                                 *)
ProbeError(env) ==
  \/ ProbeRaised(env)
  \/ ResolveRan(env) /\ env.resolve = "gaierror"
  \/ ConnectRan(env) /\ env.connect = "errno"
  \/ PingRan(env) /\ env.ping # "online"

(* the check treats the probe as unreachable: no exception leaves it, and  *)
(* it records a disconnection exactly when the target was connected         *)
TreatedAsUnreachable(r) ==
  /\ ~r.raised
  /\ ~r.is_connected
  /\ r.call = IF r.env.was_connected THEN "record_disconnection" ELSE "none"

C28_KnownAfterFirstTick ==
  \A t \in Targets :
    (last.op \in Ticks /\ last.target = t /\ last.outcome = "ok") =>
      LET target_status == get_target_status(Db, t, clock) IN
      /\ target_status # DefaultTargetStatus(t, clock)
      /\ target_status.first_seen # NULL

(* the table after the step is the table before it and one more row *)
OneRowAppended(before, after) ==
  /\ Len(after) = Len(before) + 1
  /\ SubSeq(after, 1, Len(before)) = before

(* C29: the store call of a tick that takes the stored state of a target   *)
(* from disconnected to connected opens exactly one session, active and    *)
(* starting at the tick time, appends exactly one 'connected' event, sets  *)
(* consecutive_status_duration to 0 and last_status_change to the tick time *)
C29_ConnectTransition ==
  [][\A t \in Targets :
       (/\ last'.call = "record_connection"
        /\ last'.target = t
        /\ ~status[t].is_connected
        /\ status'[t].is_connected)
       => /\ OneRowAppended(sessions, sessions')
          /\ sessions'[Len(sessions')]
               = [target |-> t, start_time |-> clock', end_time |-> NULL,
                  duration |-> NULL, status |-> "active"]
          /\ OneRowAppended(events, events')
          /\ events'[Len(events')].target = t
          /\ events'[Len(events')].event_type = "connected"
          /\ status'[t].consecutive_status_duration = 0
          /\ status'[t].last_status_change = clock']_vars

(* a tick that reconnected a target after a disconnection *)
C29_Witness ==
  /\ last.call = "record_connection"
  /\ last.outcome = "ok"
  /\ ~last.active_before
  /\ status[last.target].is_connected
  /\ EndedSessionsOf(last.target) # {}

(* C30: after any sequence of ticks the total_uptime of a target is the    *)
(* sum of the stored durations of its ended sessions                       *)
C30_UptimeIsSumOfDurations ==
  \A t \in Targets :
    status[t].total_uptime
      = Sum([i \in EndedSessionsOf(t) |-> sessions[i].duration],
            EndedSessionsOf(t))

(* C31: after any number of record_connection calls on a connected target  *)
(* or record_disconnection calls on a disconnected one,                    *)
(* consecutive_status_duration is the time from last_status_change to the  *)
(* call: every interval is counted once                                    *)
C31_IntervalCountedOnce ==
  \A t \in Targets :
    status[t].present =>
      status[t].consecutive_status_duration
        = status[t].last_check - status[t].last_status_change

(* C32: a call of get_stability_metrics that returns appends exactly one    *)
(* stability_metrics row, a row of its target; every call of it leaves the *)
(* session, event and target_status rows as they were; and no step         *)
(* modifies or deletes a stability_metrics row that exists                 *)
C32_StabilityMetricsAppendOnly ==
  [][/\ last'.op = "get_stability_metrics" =>
          /\ UNCHANGED <<sessions, events, status>>
          /\ last'.outcome = "ok" =>
               /\ OneRowAppended(stability_metrics, stability_metrics')
               /\ stability_metrics'[Len(stability_metrics')].target
                    = last'.target
     /\ Len(stability_metrics') >= Len(stability_metrics)
     /\ SubSeq(stability_metrics', 1, Len(stability_metrics))
          = stability_metrics]_vars

(* a second row of a target was appended after its first, in a store that  *)
(* holds sessions, events and the status of the target                     *)
C32_Witness ==
  /\ last.op = "get_stability_metrics"
  /\ last.outcome = "ok"
  /\ Len(stability_metrics) >= 2
  /\ stability_metrics[1].target = last.target
  /\ EndedSessionsOf(last.target) # {}
  /\ status[last.target].present

(* the newest entry is put at the end and, when the history is full, the   *)
(* oldest is dropped                                                       *)
NewestInOldestOut(h, entry) ==
  IF Len(h) < HistoryLimit THEN Append(h, entry)
  ELSE Append(SubSeq(h, 2, Len(h)), entry)

(* at most 100 entries, in the order of their checks *)
HistoryBoundedOrdered ==
  \A t \in Targets :
    LET h == mon[t].status_history IN
    /\ Len(h) <= HistoryLimit
    /\ \A i \in 1..Len(h) - 1 : h[i].timestamp < h[i + 1].timestamp

(* C33: after any number of ticks the status_history of a monitor holds at *)
(* most 100 entries, in the order of their checks; each check that returns *)
(* puts its time and result at the end and, when there were 100 entries,   *)
(* drops the oldest one, and nothing else changes the history of a running *)
(* monitor                                                                 *)
C33_HistoryKeepsLatest ==
  /\ []HistoryBoundedOrdered
  /\ [][\A t \in Targets :
          LET h == IF mon[t].alive THEN mon[t].status_history ELSE <<>>
              checked == /\ last'.op \in Ticks \cup {"check"}
                         /\ last'.target = t
                         /\ last'.outcome = "ok"
          IN /\ checked
                  => mon'[t].status_history
                       = NewestInOldestOut(h, [timestamp |-> clock',
                                               connected |-> last'.probe])
             /\ (mon'[t].alive /\ ~checked)
                  => mon'[t].status_history = h]_vars

(* the history is full and holds the checks of an outage that began after  *)
(* the first checks were dropped                                           *)
C33_Witness ==
  \E t \in Targets :
    LET h == mon[t].status_history IN
    /\ last.op = "check"
    /\ Len(h) = HistoryLimit
    /\ h[1].timestamp > clock - HistoryLimit * MaxStep
    /\ \E i \in 1..Len(h) - 1 : h[i].connected /\ ~h[i + 1].connected
    /\ clock - tz > HistoryLimit * ret.schedule.step

(* C34: in every committed state that a single writer reaches through      *)
(* record_connection and record_disconnection, the target_status of a      *)
(* target says is_connected exactly when the target has an active session  *)
C34_ConnectedIffActiveSession ==
  \A t \in Targets :
    status[t].is_connected <=> ActiveSessions(Db, t) # {}

(* a target was disconnected and is connected again, and the last call for *)
(* it failed after it had written a part of its rows                       *)
C34_Witness ==
  \E t \in Targets :
    /\ status[t].is_connected
    /\ EndedSessionsOf(t) # {}
    /\ last.target = t
    /\ last.outcome # "ok"
    /\ last.k \in 1..2

(* C35: when the stored state of a target goes from disconnected to        *)
(* connected, the length of the disconnected interval that ends, the time  *)
(* since last_status_change, is added to total_downtime                    *)
C35_DowntimeAccumulated ==
  [][\A t \in Targets :
       (/\ status[t].present
        /\ ~status[t].is_connected
        /\ status'[t].is_connected)
       => status'[t].total_downtime
            = status[t].total_downtime
              + (clock' - status[t].last_status_change)]_vars

(* C36: the sessions of a target are disjoint and ordered in time: every   *)
(* ended session has end_time >= start_time and duration = end_time -      *)
(* start_time, and every session starts when all the sessions of its       *)
(* target opened before it have ended, not earlier than any of their       *)
(* end_times                                                               *)
C36_SessionsDisjointOrdered ==
  \A t \in Targets :
    \A i \in SessionsOf(t) :
      /\ sessions[i].status = "ended" =>
           /\ sessions[i].end_time >= sessions[i].start_time
           /\ sessions[i].duration
                = sessions[i].end_time - sessions[i].start_time
      /\ \A j \in SessionsOf(t) :
           j < i => /\ sessions[j].status = "ended"
                    /\ sessions[i].start_time >= sessions[j].end_time

(* C37: a store_ping_result call that fails, at whatever step, adds no     *)
(* ping_targets, ping_metrics, icmp_details or tls_info row                *)
C37_StorePingAllOrNothing ==
  [][(ret'.op = "store_ping_result" /\ ret'.raised) => ping' = ping]_vars

(* C38: whatever the interleaving of the appends with the size check and   *)
(* the read, no line of the log is parsed into an event twice, and between *)
(* two calls of monitor_events no line up to the position of the monitor   *)
(* is missing from the events                                              *)
C38_LinesProcessedOnce ==
  /\ \A i, j \in DOMAIN vpn.events :
       i # j => vpn.events[i] # vpn.events[j]
  /\ vpn.pc = "idle" =>
       \A i \in 1..vpn.last_position :
         (log_file[i].client /\ ~log_file[i].nl) =>
           \E j \in DOMAIN vpn.events : vpn.events[j] = log_file[i].line

====
